---------------------------- MODULE Spec2Model ----------------------------
(***************************************************************************)
(* The Aadhaar analytics dashboard script (src/app.py) as a state machine. *)
(*                                                                         *)
(* One run of the script is the sequence of its sections: LOAD DATA,       *)
(* DATE FIX, SIDEBAR FILTERS, EXECUTIVE OVERVIEW, TEMPORAL PATTERNS,       *)
(* ANOMALY DETECTION, PREDICTIVE INDICATORS, AGE-WISE DISTRIBUTION.  The   *)
(* hosting framework reruns the whole script on every widget interaction;  *)
(* only the memo of load_data survives a rerun.                            *)
(*                                                                         *)
(* Data representation                                                     *)
(*   DataFrame  [columns : set of column names, rows : sequence of rows],  *)
(*              a row being a record over the frame's columns.             *)
(*   Series     sequence of [index, value] entries, in index order.        *)
(*   date text  the CSV cell "dd-mm-yyyy" split at '-': [d, m, y].         *)
(*   NaT, NaN   one-field records, so that they compare with any value.    *)
(*   floats     exact rationals [num, den] (den > 0), or NaN.              *)
(***************************************************************************)
EXTENDS Integers, Sequences, FiniteSets, TLC

VARIABLES
    files,          \* the three CSV files on disk (never written by the script)
    cache,          \* the memo of load_data kept by @st.cache_data
    pc,             \* the section of the script that runs next
    enrol, demo, bio,                       \* the script's three frames
    state,                                  \* the sidebar selection
    total_enrol, total_demo, total_bio,     \* the three metrics shown
    monthly_demo, monthly_bio, compare_df,
    monthly_total, z_scores, anomalies,
    rolling_avg, trend_df,
    age_dist,
    last_state      \* history: the selection of the previous completed run

vars == <<files, cache, pc, enrol, demo, bio, state,
          total_enrol, total_demo, total_bio,
          monthly_demo, monthly_bio, compare_df,
          monthly_total, z_scores, anomalies, rolling_avg, trend_df,
          age_dist, last_state>>

---------------------------------------------------------------------------
(* Bounds of the model.                                                    *)

MaxRows   == 3      \* rows over the three files together (table inputs)
MaxMonths == 6      \* distinct months of the demographic file (series inputs)
MaxVal    == 1      \* largest count of the biometric row (series inputs)

---------------------------------------------------------------------------
(* Values and columns.                                                     *)

NaT == [nat |-> TRUE]
NaN == [nan |-> TRUE]
NoState == "NaN"            \* an empty state cell, read as NaN by read_csv

EnrolCols == <<"age_0_5", "age_5_17", "age_18_greater">>
DemoCols  == <<"demo_age_5_17", "demo_age_17_">>
BioCols   == <<"bio_age_5_17", "bio_age_17_">>

Range(s) == {s[i] : i \in 1..Len(s)}

Frame(cols, rows) == [columns |-> cols, rows |-> rows]

EmptyFrame == Frame({}, <<>>)

RECURSIVE SumSeq(_)
SumSeq(s) == IF s = <<>> THEN 0 ELSE Head(s) + SumSeq(Tail(s))

---------------------------------------------------------------------------
(* DATE FIX: pd.to_datetime(format='%d-%m-%Y', errors='coerce') and        *)
(* .dt.to_period('M').                                                     *)

IsLeap(y) == (y % 4 = 0 /\ y % 100 # 0) \/ y % 400 = 0

DaysInMonth(m, y) ==
    IF m = 2 THEN (IF IsLeap(y) THEN 29 ELSE 28)
    ELSE IF m \in {4, 6, 9, 11} THEN 30 ELSE 31

\* errors='coerce': a cell that is no calendar date becomes NaT, and so does
\* a date outside the years a nanosecond Timestamp holds whole (1678..2261)
to_datetime(txt) ==
    IF /\ txt.m \in 1..12
       /\ txt.d >= 1
       /\ txt.d <= DaysInMonth(txt.m, txt.y)
       /\ txt.y \in 1678..2261
    THEN [y |-> txt.y, m |-> txt.m, d |-> txt.d]
    ELSE NaT

\* a monthly Period is its ordinal, the months since 1970-01
to_period(ts) ==
    IF ts = NaT THEN NaT ELSE [ordinal |-> (ts.y - 1970) * 12 + (ts.m - 1)]

\* Period.astype(str): "YYYY-MM", kept as its two numbers
PeriodStr(p) == [y |-> 1970 + (p.ordinal \div 12), m |-> (p.ordinal % 12) + 1]

FixRow(r) ==
    LET ts == to_datetime(r.date)
        base == [c \in DOMAIN r \cup {"month"} |->
                    IF c = "month" THEN to_period(ts)
                    ELSE IF c = "date" THEN ts ELSE r[c]]
    IN  base

\* df['date'] = ...; df['month'] = ...   (the frame has a date column)
DateFix(df) ==
    Frame(df.columns \cup {"month"},
          [i \in 1..Len(df.rows) |-> FixRow(df.rows[i])])

HasDate(df) == "date" \in df.columns

\* variant: a frame without the column is skipped (if 'date' in df: ...)
date_fix_skipping(e, d, b) ==
    [raised |-> FALSE,
     enrol |-> IF HasDate(e) THEN DateFix(e) ELSE e,
     demo  |-> IF HasDate(d) THEN DateFix(d) ELSE d,
     bio   |-> IF HasDate(b) THEN DateFix(b) ELSE b]

\* for df in [enrol, demo, bio]: the frames are rewritten in turn, and
\* df['date'] raises KeyError at the first frame without the column
date_fix(e, d, b) ==
    IF ~HasDate(e) THEN [raised |-> TRUE, enrol |-> e, demo |-> d, bio |-> b]
    ELSE IF ~HasDate(d)
         THEN [raised |-> TRUE, enrol |-> DateFix(e), demo |-> d, bio |-> b]
    ELSE IF ~HasDate(b)
         THEN [raised |-> TRUE, enrol |-> DateFix(e), demo |-> DateFix(d), bio |-> b]
    ELSE [raised |-> FALSE, enrol |-> DateFix(e), demo |-> DateFix(d),
          bio |-> DateFix(b)]

---------------------------------------------------------------------------
(* SIDEBAR FILTERS.                                                        *)

\* ["All"] + sorted(enrol['state'].dropna().unique().tolist()), as a set
Options(e) ==
    {"All"} \cup {e.rows[i].state : i \in {j \in 1..Len(e.rows) : e.rows[j].state # NoState}}

\* variant: only the first record of the state is kept
RECURSIVE SelectRowsFirst(_, _)
SelectRowsFirst(rows, s) ==
    IF rows = <<>> THEN <<>>
    ELSE IF Head(rows).state = s THEN <<Head(rows)>>
         ELSE SelectRowsFirst(Tail(rows), s)

RECURSIVE SelectRows(_, _)
SelectRows(rows, s) ==
    IF rows = <<>> THEN <<>>
    ELSE IF Head(rows).state = s
         THEN <<Head(rows)>> \o SelectRows(Tail(rows), s)
         ELSE SelectRows(Tail(rows), s)

\* variant: a selection that matches nothing falls back to the whole frame
FilterStageOrAll(df, s) ==
    IF s # "All" /\ SelectRows(df.rows, s) # <<>>
    THEN Frame(df.columns, SelectRows(df.rows, s)) ELSE df

\* if state != "All": df = df[df['state'] == state]
FilterStage(df, s) ==
    IF s # "All" THEN Frame(df.columns, SelectRows(df.rows, s)) ELSE df

---------------------------------------------------------------------------
(* EXECUTIVE OVERVIEW: df[cols].sum().sum().                               *)

RECURSIVE ColSum(_, _)
ColSum(rows, c) ==
    IF rows = <<>> THEN 0 ELSE Head(rows)[c] + ColSum(Tail(rows), c)

\* variant: the records without a month are dropped before the sum
RECURSIVE DatedColSum(_, _)
DatedColSum(rows, c) ==
    IF rows = <<>> THEN 0
    ELSE (IF Head(rows).month = NaT THEN 0 ELSE Head(rows)[c])
         + DatedColSum(Tail(rows), c)

TotalDated(df, cols) ==
    SumSeq([k \in 1..Len(cols) |-> DatedColSum(df.rows, cols[k])])

\* .sum() per column, then .sum() over the columns
Total(df, cols) == SumSeq([k \in 1..Len(cols) |-> ColSum(df.rows, cols[k])])

\* enrol[cols].sum().reset_index(): one (Age Group, Count) row per column
AgeDist(df) ==
    [k \in 1..Len(EnrolCols) |->
        [group |-> EnrolCols[k], count |-> ColSum(df.rows, EnrolCols[k])]]

---------------------------------------------------------------------------
(* TEMPORAL PATTERNS: df.groupby('month')[cols].sum().sum(axis=1).         *)

Min(S) == CHOOSE x \in S : \A y \in S : x <= y

RECURSIVE Ascending(_)
Ascending(S) ==
    IF S = {} THEN <<>> ELSE <<Min(S)>> \o Ascending(S \ {Min(S)})

\* variant: the keys in order of first appearance (sort=False)
RECURSIVE AsFound(_, _)
AsFound(rows, seen) ==
    IF rows = <<>> THEN <<>>
    ELSE IF Head(rows).month = NaT \/ Head(rows).month.ordinal \in seen
         THEN AsFound(Tail(rows), seen)
         ELSE <<Head(rows).month.ordinal>>
              \o AsFound(Tail(rows), seen \cup {Head(rows).month.ordinal})

GroupKeysAsFound(df) == AsFound(df.rows, {})

\* the group keys: the distinct non-null months, sorted (sort=True, dropna=True)
GroupKeys(df) ==
    Ascending({df.rows[i].month.ordinal :
                  i \in {j \in 1..Len(df.rows) : df.rows[j].month # NaT}})

RECURSIVE GroupColSum(_, _, _)
GroupColSum(rows, key, c) ==
    IF rows = <<>> THEN 0
    ELSE (IF Head(rows).month = [ordinal |-> key] THEN Head(rows)[c] ELSE 0)
         + GroupColSum(Tail(rows), key, c)

\* per group the sum of each column, then the sum across the columns
monthlySum(df, cols) ==
    LET keys == GroupKeys(df)
    IN  [k \in 1..Len(keys) |->
            [index |-> [ordinal |-> keys[k]],
             value |-> SumSeq([c \in 1..Len(cols) |->
                                  GroupColSum(df.rows, keys[k], cols[c])])]]

Float(n) == [num |-> n, den |-> 1]

IndexSet(s) == {s[i].index : i \in 1..Len(s)}

At(s, ix) == LET i == CHOOSE j \in 1..Len(s) : s[j].index = ix IN s[i].value

\* pd.concat([a, b], axis=1).reset_index() with month as str: one row per
\* month of either series, NaN where a series has no entry (row order left open)
Concat(a, b) ==
    [ix \in {PeriodStr(p) : p \in IndexSet(a) \cup IndexSet(b)} |->
        LET p == CHOOSE q \in IndexSet(a) \cup IndexSet(b) : PeriodStr(q) = ix
        IN  [demographic |-> IF p \in IndexSet(a) THEN Float(At(a, p)) ELSE NaN,
             biometric   |-> IF p \in IndexSet(b) THEN Float(At(b, p)) ELSE NaN]]

---------------------------------------------------------------------------
(* ANOMALY DETECTION.                                                      *)

\* variant: a.add(b) without fill_value, the months of one side only lost
RECURSIVE combineInner(_, _)
combineInner(a, b) ==
    IF a = <<>> \/ b = <<>> THEN <<>>
    ELSE IF Head(a).index.ordinal < Head(b).index.ordinal
         THEN combineInner(Tail(a), b)
    ELSE IF Head(b).index.ordinal < Head(a).index.ordinal
         THEN combineInner(a, Tail(b))
    ELSE <<[index |-> Head(a).index, value |-> Head(a).value + Head(b).value]>>
         \o combineInner(Tail(a), Tail(b))

\* a.add(b, fill_value=0): outer join of the two sorted indexes, a missing
\* side counted as 0
RECURSIVE combine(_, _)
combine(a, b) ==
    IF a = <<>> THEN b
    ELSE IF b = <<>> THEN a
    ELSE IF Head(a).index.ordinal < Head(b).index.ordinal
         THEN <<Head(a)>> \o combine(Tail(a), b)
    ELSE IF Head(b).index.ordinal < Head(a).index.ordinal
         THEN <<Head(b)>> \o combine(a, Tail(b))
    ELSE <<[index |-> Head(a).index, value |-> Head(a).value + Head(b).value]>>
         \o combine(Tail(a), Tail(b))

\* monthly_total.index = monthly_total.index.astype(str)
IndexAsStr(s) ==
    [i \in 1..Len(s) |-> [index |-> PeriodStr(s[i].index), value |-> s[i].value]]

Values(s) == [i \in 1..Len(s) |-> s[i].value]

Threshold == 2

\* variant: the deviation divided by .var() instead of .std(), which is
\* dev * n * (n-1) / ss
ZScoreByVariance(vals, i) ==
    LET n   == Len(vals)
        S   == SumSeq(vals)
        dev == [j \in 1..n |-> n * vals[j] - S]
        ss  == SumSeq([j \in 1..n |-> dev[j] * dev[j]])
    IN  IF n < 2 \/ ss = 0 THEN NaN
        ELSE [dev |-> dev[i], n1 |-> n * n * (n - 1) * (n - 1), ss |-> ss * ss]

\* (x - x.mean()) / x.std() for one entry.  With n values of sum S the
\* deviation x - mean is dev / n and std (ddof=1) is sqrt(ss / (n-1)) / n,
\* where dev = n*x - S and ss is the sum of the squared dev of all entries;
\* the score dev * sqrt(n-1) / sqrt(ss) is kept as (dev, n-1, ss).  The std of
\* fewer than 2 values is NaN, and a zero std gives 0/0: NaN in both cases.
ZScore(vals, i) ==
    LET n   == Len(vals)
        S   == SumSeq(vals)
        dev == [j \in 1..n |-> n * vals[j] - S]
        ss  == SumSeq([j \in 1..n |-> dev[j] * dev[j]])
    IN  IF n < 2 \/ ss = 0 THEN NaN
        ELSE [dev |-> dev[i], n1 |-> n - 1, ss |-> ss]

zScores(s) == [i \in 1..Len(s) |-> ZScore(Values(s), i)]

\* variant: z > k, the .abs() forgotten
Greater(z, k) == z # NaN /\ z.dev > 0 /\ z.dev * z.dev * z.n1 > k * k * z.ss

\* z.abs() > k; a comparison with NaN is False
AbsGreater(z, k) == z # NaN /\ z.dev * z.dev * z.n1 > k * k * z.ss

RECURSIVE Mask(_, _)
Mask(s, keep) ==
    IF s = <<>> THEN <<>>
    ELSE (IF Head(keep) THEN <<Head(s)>> ELSE <<>>) \o Mask(Tail(s), Tail(keep))

\* df_monthly_total[z_scores.abs() > 2]
detectAnomalies(s, z) ==
    Mask(s, [i \in 1..Len(s) |-> AbsGreater(z[i], Threshold)])

---------------------------------------------------------------------------
(* PREDICTIVE INDICATORS: monthly_total.rolling(3).mean().                 *)

Window == 3

\* variant: nothing ever leaves the window (an expanding mean)
RECURSIVE RollStateExpanding(_, _)
RollStateExpanding(vals, i) ==
    IF i = 0 THEN [sum_x |-> 0, nobs |-> 0]
    ELSE LET before == RollStateExpanding(vals, i - 1)
         IN  [sum_x |-> before.sum_x + vals[i], nobs |-> before.nobs + 1]

\* the running sum and observation count after entry i: entry i is added,
\* the entry that left the window is removed
RECURSIVE RollState(_, _)
RollState(vals, i) ==
    IF i = 0 THEN [sum_x |-> 0, nobs |-> 0]
    ELSE LET prev  == RollState(vals, i - 1)
             added == [sum_x |-> prev.sum_x + vals[i], nobs |-> prev.nobs + 1]
         IN  IF i > Window
             THEN [sum_x |-> added.sum_x - vals[i - Window], nobs |-> added.nobs - 1]
             ELSE added

\* min_periods = window: no value until the window is full
rollingMean(s) ==
    [i \in 1..Len(s) |->
        LET st == RollState(Values(s), i)
        IN  [index |-> s[i].index,
             value |-> IF st.nobs >= Window
                       THEN [num |-> st.sum_x, den |-> st.nobs] ELSE NaN]]

\* pd.concat([monthly_total, rolling_avg], axis=1).reset_index()
TrendFrame(s, r) ==
    [i \in 1..Len(s) |-> [Month |-> s[i].index, Actual |-> s[i].value,
                          RollingAvg |-> r[i].value]]

---------------------------------------------------------------------------
(* LOAD DATA: load_data under @st.cache_data.                              *)

\* pd.read_csv: an empty cell of the state column is read as NaN
ReadRow(r) ==
    [c \in DOMAIN r |-> IF c = "state" /\ r[c] = "" THEN NoState ELSE r[c]]

read_csv(f) == Frame(f.columns, [i \in 1..Len(f.rows) |-> ReadRow(f.rows[i])])

load_data(f) ==
    [enrol |-> read_csv(f.enrol), demo |-> read_csv(f.demo), bio |-> read_csv(f.bio)]

NoCache == [enrol |-> EmptyFrame, demo |-> EmptyFrame, bio |-> EmptyFrame,
            empty |-> TRUE]

\* variant: the memo holds the very objects it returns (st.cache_resource)
CachedByReference(memo, written) == written

\* The memo after the script has written to the frames a call returned.
\* st.cache_data keeps the return value pickled and hands every caller its
\* own copy, so the script's writes (made, the frames then standing as
\* `written`) never reach the memo.
CachedAfter(memo, written) == memo

---------------------------------------------------------------------------
(* The script.                                                             *)

Blank ==
    /\ enrol = EmptyFrame /\ demo = EmptyFrame /\ bio = EmptyFrame
    /\ state = "All"
    /\ total_enrol = 0 /\ total_demo = 0 /\ total_bio = 0
    /\ monthly_demo = <<>> /\ monthly_bio = <<>> /\ compare_df = <<>>
    /\ monthly_total = <<>> /\ z_scores = <<>> /\ anomalies = <<>>
    /\ rolling_avg = <<>> /\ trend_df = <<>>
    /\ age_dist = <<>>

outputs == <<total_enrol, total_demo, total_bio, monthly_demo, monthly_bio,
             compare_df, monthly_total, z_scores, anomalies, rolling_avg,
             trend_df, age_dist>>

\* lines 19-26, first call: the three files are read and memoized
LoadMiss ==
    /\ pc = "load"
    /\ cache = NoCache
    /\ cache' = load_data(files)
    /\ enrol' = cache'.enrol /\ demo' = cache'.demo /\ bio' = cache'.bio
    /\ pc' = "datefix"
    /\ UNCHANGED <<files, state, outputs, last_state>>

\* lines 19-26, later calls: a copy of the memo
LoadHit ==
    /\ pc = "load"
    /\ cache # NoCache
    /\ enrol' = cache.enrol /\ demo' = cache.demo /\ bio' = cache.bio
    /\ pc' = "datefix"
    /\ UNCHANGED <<files, cache, state, outputs, last_state>>

\* lines 31-33, every frame has a date column
DateFixOk ==
    /\ pc = "datefix"
    /\ LET out == date_fix(enrol, demo, bio)
       IN  /\ ~out.raised
           /\ enrol' = out.enrol /\ demo' = out.demo /\ bio' = out.bio
           /\ cache' = CachedAfter(cache, [enrol |-> out.enrol, demo |-> out.demo,
                                           bio |-> out.bio])
    /\ pc' = "sidebar"
    /\ UNCHANGED <<files, state, outputs, last_state>>

\* lines 31-33, a frame has no date column: the uncaught KeyError stops the
\* run, the frames before that one already rewritten
DateFixError ==
    /\ pc = "datefix"
    /\ LET out == date_fix(enrol, demo, bio)
       IN  /\ out.raised
           /\ enrol' = out.enrol /\ demo' = out.demo /\ bio' = out.bio
           /\ cache' = CachedAfter(cache, [enrol |-> out.enrol, demo |-> out.demo,
                                           bio |-> out.bio])
    /\ pc' = "error"
    /\ UNCHANGED <<files, state, outputs, last_state>>

\* lines 40-48: the selection, then the three frames narrowed to it
Sidebar ==
    /\ pc = "sidebar"
    /\ \E s \in Options(enrol) :
          /\ state' = s
          /\ enrol' = FilterStage(enrol, s)
          /\ demo'  = FilterStage(demo, s)
          /\ bio'   = FilterStage(bio, s)
    /\ pc' = "overview"
    /\ UNCHANGED <<files, cache, outputs, last_state>>

\* lines 55-62
Overview ==
    /\ pc = "overview"
    /\ total_enrol' = Total(enrol, EnrolCols)
    /\ total_demo'  = Total(demo, DemoCols)
    /\ total_bio'   = Total(bio, BioCols)
    /\ pc' = "temporal"
    /\ UNCHANGED <<files, cache, enrol, demo, bio, state, monthly_demo,
                   monthly_bio, compare_df, monthly_total, z_scores, anomalies,
                   rolling_avg, trend_df, age_dist, last_state>>

\* lines 74-78
Temporal ==
    /\ pc = "temporal"
    /\ monthly_demo' = monthlySum(demo, DemoCols)
    /\ monthly_bio'  = monthlySum(bio, BioCols)
    /\ compare_df'   = Concat(monthly_demo', monthly_bio')
    /\ pc' = "anomaly"
    /\ UNCHANGED <<files, cache, enrol, demo, bio, state, total_enrol,
                   total_demo, total_bio, monthly_total, z_scores, anomalies,
                   rolling_avg, trend_df, age_dist, last_state>>

\* lines 101-115
Anomaly ==
    /\ pc = "anomaly"
    /\ monthly_total' = IndexAsStr(combine(monthly_demo, monthly_bio))
    /\ z_scores'      = zScores(monthly_total')
    /\ anomalies'     = detectAnomalies(monthly_total', z_scores')
    /\ pc' = "predictive"
    /\ UNCHANGED <<files, cache, enrol, demo, bio, state, total_enrol,
                   total_demo, total_bio, monthly_demo, monthly_bio, compare_df,
                   rolling_avg, trend_df, age_dist, last_state>>

\* lines 142-144
Predictive ==
    /\ pc = "predictive"
    /\ rolling_avg' = rollingMean(monthly_total)
    /\ trend_df'    = TrendFrame(monthly_total, rolling_avg')
    /\ pc' = "agewise"
    /\ UNCHANGED <<files, cache, enrol, demo, bio, state, total_enrol,
                   total_demo, total_bio, monthly_demo, monthly_bio, compare_df,
                   monthly_total, z_scores, anomalies, age_dist, last_state>>

\* lines 164-165; the rest of the script is static
AgeWise ==
    /\ pc = "agewise"
    /\ age_dist' = AgeDist(enrol)
    /\ pc' = "done"
    /\ UNCHANGED <<files, cache, enrol, demo, bio, state, total_enrol,
                   total_demo, total_bio, monthly_demo, monthly_bio, compare_df,
                   monthly_total, z_scores, anomalies, rolling_avg, trend_df, last_state>>

\* a widget interaction: the script runs again from its first line, in a
\* fresh namespace; the memo of load_data is all that is kept
Rerun ==
    /\ pc \in {"done", "error"}
    /\ pc' = "load"
    /\ enrol' = EmptyFrame /\ demo' = EmptyFrame /\ bio' = EmptyFrame
    /\ state' = "All"
    /\ total_enrol' = 0 /\ total_demo' = 0 /\ total_bio' = 0
    /\ monthly_demo' = <<>> /\ monthly_bio' = <<>> /\ compare_df' = <<>>
    /\ monthly_total' = <<>> /\ z_scores' = <<>> /\ anomalies' = <<>>
    /\ rolling_avg' = <<>> /\ trend_df' = <<>>
    /\ age_dist' = <<>>
    /\ last_state' = IF pc = "done" THEN state ELSE last_state
    /\ UNCHANGED <<files, cache>>

Next ==
    \/ LoadMiss \/ LoadHit \/ DateFixOk \/ DateFixError \/ Sidebar
    \/ Overview \/ Temporal \/ Anomaly \/ Predictive \/ AgeWise \/ Rerun

---------------------------------------------------------------------------
(* Inputs: the files of the table runs.                                    *)

FileStates == {"A", "B", ""}

\* "15-01-2025", "20-12-2024", and "31-02-2025", which is no date
DateTexts == {[d |-> 15, m |-> 1, y |-> 2025], [d |-> 20, m |-> 12, y |-> 2024],
              [d |-> 31, m |-> 2, y |-> 2025]}

\* the enrolment file's dates feed no output: one text is enough
EnrolDateTexts == {[d |-> 15, m |-> 1, y |-> 2025]}

\* "15-01-2025" and "31-02-2025"
BioDateTexts == {[d |-> 15, m |-> 1, y |-> 2025], [d |-> 31, m |-> 2, y |-> 2025]}

EnrolCounts == {<<1, 2, 3>>}
DemoCounts  == {<<1, 2>>}
BioCounts   == {<<2, 1>>}

\* a file row; a file without the date column has no such cell
Row(hasDate, s, dt, cols, n) ==
    [c \in {"state"} \cup Range(cols) \cup (IF hasDate THEN {"date"} ELSE {}) |->
        IF c = "state" THEN s
        ELSE IF c = "date" THEN dt
        ELSE n[CHOOSE k \in 1..Len(cols) : cols[k] = c]]

FileRows(hasDate, cols, dates, counts) ==
    {Row(hasDate, s, dt, cols, n) : s \in FileStates, dt \in dates, n \in counts}

File(hasDate, cols, rows) ==
    Frame({"state"} \cup Range(cols) \cup (IF hasDate THEN {"date"} ELSE {}), rows)

Files(ne, nd, nb, he, hd, hb) ==
    {[enrol |-> File(he, EnrolCols, e), demo |-> File(hd, DemoCols, d),
      bio |-> File(hb, BioCols, b)] :
        e \in [1..ne -> FileRows(he, EnrolCols, EnrolDateTexts, EnrolCounts)],
        d \in [1..nd -> FileRows(hd, DemoCols, DateTexts, DemoCounts)],
        b \in [1..nb -> FileRows(hb, BioCols, BioDateTexts, BioCounts)]}

Start ==
    /\ cache = NoCache
    /\ pc = "load"
    /\ last_state = "none"
    /\ Blank

Init ==
    /\ \E ne \in 0..MaxRows, nd \in 0..MaxRows, nb \in 0..MaxRows :
          /\ ne + nd + nb <= MaxRows
          /\ \E he \in BOOLEAN, hd \in BOOLEAN, hb \in BOOLEAN :
                /\ Cardinality({h \in {<<1, he>>, <<2, hd>>, <<3, hb>>} : ~h[2]}) <= 1
                /\ files \in Files(ne, nd, nb, he, hd, hb)
    /\ Start

Spec == Init /\ [][Next]_vars

---------------------------------------------------------------------------
(* Inputs: the files of the series runs.  The demographic file holds at    *)
(* most one row for each of MaxMonths consecutive months from 11-2024, its  *)
(* count 0 or 1; the biometric file holds at most one row, its count        *)
(* between 1 and MaxVal.                                                    *)
(* The machine starts where the monthly series of an unfiltered run of      *)
(* these files are computed, and runs the two sections that consume them.   *)

MonthText(k) == [d |-> 1, m |-> ((k + 9) % 12) + 1, y |-> 2024 + ((k + 9) \div 12)]

\* f[k] is the count of month k, or -1 for a month without a row
RECURSIVE SeriesRows(_, _, _)
SeriesRows(f, k, cols) ==
    IF k > MaxMonths THEN <<>>
    ELSE (IF f[k] < 0 THEN <<>>
          ELSE <<Row(TRUE, "A", MonthText(k), cols, <<f[k], 0>>)>>)
         \o SeriesRows(f, k + 1, cols)

SeriesFiles ==
    {[enrol |-> File(TRUE, EnrolCols,
                     <<Row(TRUE, "A", MonthText(1), EnrolCols, <<1, 2, 3>>)>>),
      demo  |-> File(TRUE, DemoCols, SeriesRows(f, 1, DemoCols)),
      bio   |-> File(TRUE, BioCols, b)] :
        f \in [1..MaxMonths -> {-1, 0, 1}],
        b \in {<<>>} \cup {<<Row(TRUE, "A", MonthText(k), BioCols, <<0, n>>)>> :
                              k \in 1..MaxMonths, n \in 1..MaxVal}}

InitSeries ==
    /\ files \in SeriesFiles
    /\ cache = load_data(files)
    /\ LET out == date_fix(cache.enrol, cache.demo, cache.bio)
       IN  /\ enrol = FilterStage(out.enrol, "All")
           /\ demo  = FilterStage(out.demo, "All")
           /\ bio   = FilterStage(out.bio, "All")
    /\ state = "All"
    /\ last_state = "none"
    /\ total_enrol = Total(enrol, EnrolCols)
    /\ total_demo  = Total(demo, DemoCols)
    /\ total_bio   = Total(bio, BioCols)
    /\ monthly_demo = monthlySum(demo, DemoCols)
    /\ monthly_bio  = monthlySum(bio, BioCols)
    /\ compare_df   = Concat(monthly_demo, monthly_bio)
    /\ monthly_total = <<>> /\ z_scores = <<>> /\ anomalies = <<>>
    /\ rolling_avg = <<>> /\ trend_df = <<>>
    /\ age_dist = <<>>
    /\ pc = "anomaly"

NextSeries == Anomaly \/ Predictive

SpecSeries == InitSeries /\ [][NextSeries]_vars

---------------------------------------------------------------------------
(* Properties.                                                             *)

AfterSidebar    == pc \in {"overview", "temporal", "anomaly", "predictive", "agewise", "done"}
AfterOverview   == pc \in {"temporal", "anomaly", "predictive", "agewise", "done"}
AfterTemporal   == pc \in {"anomaly", "predictive", "agewise", "done"}
AfterAnomaly    == pc \in {"predictive", "agewise", "done"}
AfterPredictive == pc \in {"agewise", "done"}

RowSum(r, cols) == SumSeq([k \in 1..Len(cols) |-> r[cols[k]]])

\* the states the selector offers, "All" apart
Selectable == Options(enrol) \ {"All"}

RECURSIVE PerStateSum(_, _, _)
PerStateSum(S, df, cols) ==
    IF S = {} THEN 0
    ELSE LET s == CHOOSE x \in S : TRUE
         IN  Total(FilterStage(df, s), cols) + PerStateSum(S \ {s}, df, cols)

\* the counts of the records whose state is null or is not offered
RECURSIVE Unselectable(_, _, _)
Unselectable(rows, cols, S) ==
    IF rows = <<>> THEN 0
    ELSE (IF Head(rows).state \in S THEN 0 ELSE RowSum(Head(rows), cols))
         + Unselectable(Tail(rows), cols, S)

FirstFrames == LET t == load_data(files) IN date_fix(t.enrol, t.demo, t.bio)

FirstRun(s) ==
    LET f  == FirstFrames
        e  == FilterStage(f.enrol, s)
        d  == FilterStage(f.demo, s)
        b  == FilterStage(f.bio, s)
        md == monthlySum(d, DemoCols)
        mb == monthlySum(b, BioCols)
        mt == IndexAsStr(combine(md, mb))
        z  == zScores(mt)
        r  == rollingMean(mt)
    IN  <<Total(e, EnrolCols), Total(d, DemoCols), Total(b, BioCols), md, mb,
          Concat(md, mb), mt, z, detectAnomalies(mt, z), r, TrendFrame(mt, r),
          AgeDist(e)>>

\* C2: through any sequence of runs and selections the memoized tables stay
\* what load_data read from the files, so every run filters the tables as a
\* first run with its selection does and ends with that run's aggregates, and
\* with "All" the three frames are the whole date-fixed tables.
C2_TablesKept ==
    /\ cache # NoCache => cache = load_data(files)
    /\ AfterSidebar =>
          /\ LET first == FirstFrames
             IN  /\ enrol = FilterStage(first.enrol, state)
                 /\ demo  = FilterStage(first.demo, state)
                 /\ bio   = FilterStage(first.bio, state)
          /\ state = "All" =>
                /\ enrol.rows = [i \in 1..Len(cache.enrol.rows) |-> FixRow(cache.enrol.rows[i])]
                /\ demo.rows  = [i \in 1..Len(cache.demo.rows) |-> FixRow(cache.demo.rows[i])]
                /\ bio.rows   = [i \in 1..Len(cache.bio.rows) |-> FixRow(cache.bio.rows[i])]
    /\ pc = "done" => outputs = FirstRun(state)

C2_Witness ==
    /\ pc = "done"
    /\ last_state \notin {"none", "All", state}
    /\ state # "All"
    /\ Len(demo.rows) > 0
    /\ Len(enrol.rows) < Len(cache.enrol.rows)

MissingDate == \E t \in {files.enrol, files.demo, files.bio} : ~HasDate(t)

NothingShown ==
    /\ state = "All"
    /\ total_enrol = 0 /\ total_demo = 0 /\ total_bio = 0
    /\ monthly_demo = <<>> /\ monthly_bio = <<>> /\ compare_df = <<>>
    /\ monthly_total = <<>> /\ z_scores = <<>> /\ anomalies = <<>>
    /\ rolling_avg = <<>> /\ trend_df = <<>>
    /\ age_dist = <<>>

\* C6: when a file has no date column the run never gets past the date fix:
\* from there its only step is the raised error, no selection is made, no
\* aggregate is computed, and no section after the date fix sees a frame.
C6_MissingDateStops ==
    MissingDate =>
        /\ pc \in {"load", "datefix", "error"}
        /\ NothingShown
        /\ pc = "datefix" => (ENABLED DateFixError /\ ~ENABLED DateFixOk)

C6_Witness ==
    /\ pc = "error"
    /\ HasDate(files.enrol) /\ ~HasDate(files.demo)
    /\ Len(enrol.rows) > 0 /\ "month" \in enrol.columns
    /\ Len(demo.rows) > 0

\* the selection matches no record of the loaded table
Miss(t) ==
    /\ state # "All"
    /\ \A i \in 1..Len(t.rows) : t.rows[i].state # state

\* C7: when the selection matches no record of an update table, that table's
\* total is 0 and its monthly series empty, the combined series is the other
\* table's series (empty, with no anomaly and no trend, when both miss), and
\* no section raises: an error state needs a missing date column, and a run
\* with such a selection has a next step until it is done.
C7_FilterMiss ==
    /\ (AfterOverview /\ Miss(cache.demo)) => total_demo = 0
    /\ (AfterOverview /\ Miss(cache.bio)) => total_bio = 0
    /\ (AfterTemporal /\ Miss(cache.demo)) => monthly_demo = <<>>
    /\ (AfterTemporal /\ Miss(cache.bio)) => monthly_bio = <<>>
    /\ (AfterAnomaly /\ Miss(cache.demo)) => monthly_total = IndexAsStr(monthly_bio)
    /\ (AfterAnomaly /\ Miss(cache.bio)) => monthly_total = IndexAsStr(monthly_demo)
    /\ (AfterAnomaly /\ Miss(cache.demo) /\ Miss(cache.bio)) =>
          (monthly_total = <<>> /\ z_scores = <<>> /\ anomalies = <<>>)
    /\ (AfterPredictive /\ Miss(cache.demo) /\ Miss(cache.bio)) =>
          (rolling_avg = <<>> /\ trend_df = <<>>)
    /\ pc = "error" => MissingDate
    /\ (AfterSidebar /\ pc # "done" /\ (Miss(cache.demo) \/ Miss(cache.bio))) =>
          ENABLED Next

C7_Witness ==
    /\ pc = "done"
    /\ Miss(cache.demo) /\ Len(cache.demo.rows) > 0
    /\ ~Miss(cache.bio) /\ monthly_total # <<>>

\* calendar order of two months, read off their year and month numbers
Earlier(p, q) ==
    LET a == PeriodStr(p)
        b == PeriodStr(q)
    IN  a.y < b.y \/ (a.y = b.y /\ a.m < b.m)

MonthsOf(df) == {df.rows[i].month : i \in 1..Len(df.rows)} \ {NaT}

SeriesOf(s, df) ==
    /\ IndexSet(s) \subseteq MonthsOf(df)
    /\ \A i \in 1..Len(s) : \A j \in 1..Len(s) : i < j => Earlier(s[i].index, s[j].index)

\* C8: each monthly series is keyed only by months of the filtered records
\* and lists them in strictly ascending calendar order, none twice.
C8_MonthlySorted ==
    AfterTemporal => (SeriesOf(monthly_demo, demo) /\ SeriesOf(monthly_bio, bio))

C8_Witness ==
    /\ pc = "done" /\ state # "All"
    /\ Len(monthly_demo) = 2
    /\ Len(demo.rows) = 2
    /\ demo.rows[1].month = monthly_demo[2].index

MonthLengths == <<31, 28, 31, 30, 31, 30, 31, 31, 30, 31, 30, 31>>

\* the text names a day of the calendar
CalendarDate(txt) ==
    /\ txt.m \in 1..12
    /\ txt.d \in 1..31
    /\ txt.d <= MonthLengths[txt.m] + (IF txt.m = 2 /\ IsLeap(txt.y) THEN 1 ELSE 0)

RECURSIVE NullMonthSum(_, _)
NullMonthSum(rows, cols) ==
    IF rows = <<>> THEN 0
    ELSE (IF Head(rows).month = NaT THEN RowSum(Head(rows), cols) ELSE 0)
         + NullMonthSum(Tail(rows), cols)

DateFixed(df, raw) ==
    \A i \in 1..Len(df.rows) :
        IF CalendarDate(raw.rows[i].date)
        THEN /\ df.rows[i].month # NaT
             /\ PeriodStr(df.rows[i].month)
                   = [y |-> raw.rows[i].date.y, m |-> raw.rows[i].date.m]
        ELSE df.rows[i].month = NaT

\* C9: a date that is no calendar date gives its record a null month and
\* stops nothing; the record is in no monthly entry but in the total, so each
\* update total is the sum of its monthly series plus the counts of its
\* null-month records.
C9_NullMonth ==
    /\ pc = "error" => MissingDate
    /\ pc = "sidebar" =>
          (DateFixed(demo, cache.demo) /\ DateFixed(bio, cache.bio))
    /\ AfterTemporal =>
          /\ NaT \notin IndexSet(monthly_demo) \cup IndexSet(monthly_bio)
          /\ total_demo = SumSeq(Values(monthly_demo)) + NullMonthSum(demo.rows, DemoCols)
          /\ total_bio = SumSeq(Values(monthly_bio)) + NullMonthSum(bio.rows, BioCols)

C9_Witness ==
    /\ pc = "done"
    /\ NullMonthSum(demo.rows, DemoCols) > 0
    /\ monthly_demo # <<>>

SqSum(v) == SumSeq([i \in 1..Len(v) |-> v[i] * v[i]])

\* |v[i] - mean| / std > 2 with mean = S/n and std^2 = (sum of squares -
\* S^2/n) / (n-1), cleared of its fractions; no position when std is
\* undefined (n < 2) or zero
Flagged(v) ==
    LET n == Len(v)
        S == SumSeq(v)
        q == n * SqSum(v) - S * S
    IN  {i \in 1..n :
            /\ n >= 2
            /\ q > 0
            /\ (n * v[i] - S) * (n * v[i] - S) * (n - 1) > 2 * 2 * n * q}

Constant(v) == \A i \in 1..Len(v) : v[i] = v[1]

\* C3: the anomalies are exactly the months of the combined series whose
\* |value - mean| / sample standard deviation is above 2, each once and in
\* series order; a constant series, a series of one month and an empty
\* series have none.
C3_AnomaliesExact ==
    AfterAnomaly =>
        LET v == Values(monthly_total)
        IN  /\ IndexSet(anomalies) = {monthly_total[i].index : i \in Flagged(v)}
            /\ Len(anomalies) = Cardinality(Flagged(v))
            /\ \A i \in 1..Len(anomalies) :
                  \E j \in Flagged(v) : anomalies[i] = monthly_total[j]
            /\ (Len(v) < 2 \/ Constant(v)) => anomalies = <<>>

C3_Witness ==
    /\ pc = "predictive"
    /\ Len(anomalies) = 1
    /\ Len(monthly_total) > Len(monthly_demo)
    /\ anomalies[1].value < monthly_total[1].value

\* C10: a combined series of 5 months or fewer has no anomaly.
C10_FiveMonthsNoAnomaly ==
    (AfterAnomaly /\ Len(monthly_total) <= 5) => anomalies = <<>>

C10_Witness ==
    /\ pc = "predictive"
    /\ Len(monthly_total) = 6
    /\ anomalies # <<>>

Keys(a, b) == IndexSet(a) \cup IndexSet(b)

ValueOr0(s, p) == IF p \in IndexSet(s) THEN At(s, p) ELSE 0

\* C4: the combined series has one entry for every month of either input,
\* holding the sum of the inputs' values there, an absent one counting 0;
\* combining in the other order gives the same series, and inputs with no
\* month in common give exactly their entries.
C4_CombineOuterJoin ==
    AfterAnomaly =>
        /\ IndexSet(monthly_total) = {PeriodStr(p) : p \in Keys(monthly_demo, monthly_bio)}
        /\ Len(monthly_total) = Cardinality(Keys(monthly_demo, monthly_bio))
        /\ \A p \in Keys(monthly_demo, monthly_bio) :
              At(monthly_total, PeriodStr(p))
                 = ValueOr0(monthly_demo, p) + ValueOr0(monthly_bio, p)
        /\ combine(monthly_demo, monthly_bio) = combine(monthly_bio, monthly_demo)
        /\ IndexSet(monthly_demo) \cap IndexSet(monthly_bio) = {} =>
              Range(combine(monthly_demo, monthly_bio))
                 = Range(monthly_demo) \cup Range(monthly_bio)

C4_Witness ==
    /\ pc = "predictive"
    /\ Len(monthly_demo) = 3
    /\ Len(monthly_bio) = 1
    /\ monthly_bio[1].index = monthly_demo[2].index
    /\ monthly_total[2].value = monthly_demo[2].value + monthly_bio[1].value
    /\ monthly_demo[2].value > 0

EarlierStr(a, b) == a.y < b.y \/ (a.y = b.y /\ a.m < b.m)

\* C5: the rolling average has the months of the combined series in the same
\* ascending order; counting positions over the months present, it has no
\* value at the first two and from the third on the mean of the value there
\* and the two before it.
C5_RollingMean ==
    AfterPredictive =>
        /\ Len(rolling_avg) = Len(monthly_total)
        /\ \A i \in 1..Len(monthly_total) :
              /\ rolling_avg[i].index = monthly_total[i].index
              /\ i < 3 => rolling_avg[i].value = NaN
              /\ i >= 3 =>
                    /\ rolling_avg[i].value # NaN
                    /\ rolling_avg[i].value.den > 0
                    /\ rolling_avg[i].value.num * 3
                          = (monthly_total[i-2].value + monthly_total[i-1].value
                                + monthly_total[i].value) * rolling_avg[i].value.den
              /\ i > 1 => EarlierStr(monthly_total[i-1].index, monthly_total[i].index)

C5_Witness ==
    /\ pc = "agewise"
    /\ Len(monthly_total) = 4
    /\ monthly_total[1].index = [y |-> 2024, m |-> 11]
    /\ monthly_total[2].index = [y |-> 2025, m |-> 1]
    /\ monthly_total[1].value + monthly_total[2].value + monthly_total[3].value = 1
    /\ monthly_total[4].value = 2
    /\ rolling_avg[4].value = [num |-> 3, den |-> 3]

===========================================================================
